---- MODULE Spec2Model ----
(***************************************************************************)
(* A model of the UPI personal-finance assistant:                          *)
(*   - recommender.py: safe_generate (the retry loop around the external   *)
(*     text-generation service) and generate_recommendations;              *)
(*   - app.py: validate_columns, spending_patterns and main.               *)
(* Strings are sequences of one-character strings, so that comparison,     *)
(* containment, lower-casing and trimming are computed, not assumed.       *)
(***************************************************************************)
EXTENDS Integers, Sequences, FiniteSets, TLC

VARIABLES
    pc,          \* position of the advice call: "ready", "sg_loop", "done"
    caller,      \* entry point: "generate_recommendations" or "safe_generate"
    retries,     \* safe_generate's retries argument
    sleep_time,  \* safe_generate's sleep_time argument
    attempt,     \* the loop variable of safe_generate
    history,     \* the answers of model.generate_content so far, in order
    trace,       \* model calls and backoff sleeps, in the order performed
    log,         \* the records written to the logger
    sg_end,      \* how safe_generate ended: "running", "returned" or the exception raised
    result,      \* what the entry point returned to its caller (NoValue: nothing)
    raised,      \* the exception the entry point propagated to its caller
    prompt,      \* the prompt handed to safe_generate
    app_pc,      \* position of the app: "off", "idle", "advising", "summary_ready", "summary_done"
    runs,        \* how many times main has run in this session
    session,     \* st.session_state: NoValue, or the advice stored under 'advice'
    advice_src,  \* the prompt of the call whose result is stored in session
    page,        \* what the last run of main rendered
    file,        \* the file the last run of main read
    df,          \* the dataframe at hand
    patterns,    \* the result of spending_patterns(df)
    monthly_income, \* the number input of the last run of main
    api_key,     \* GOOGLE_API_KEY in the environment (NoValue: not set)
    model,       \* the module's model object: "none" or "created"
    stdout,      \* the lines printed to standard output
    init_exc     \* the exception that ended the import of recommender.py

advice_vars == << pc, caller, retries, sleep_time, attempt, history, trace,
                  log, sg_end, result, raised, prompt >>

app_vars == << app_pc, runs, session, advice_src, page, file, df, patterns,
               monthly_income >>

env_vars == << api_key, model, stdout, init_exc >>

vars == << advice_vars, app_vars, env_vars >>

----------------------------------------------------------------------------
(* Bounds of the model *)

\* largest retries argument tried on direct calls of safe_generate
MaxRetries == 3

\* longest dataframe handed to spending_patterns on its own
MaxRows == 3

\* how many times main runs in one session
MaxRuns == 2

\* significand width of the floating-point format the float64 sums are
\* rounded to (binary64 has 53 bits; the model rounds the same way, sooner)
MantBits == 4

----------------------------------------------------------------------------
(* Program constants *)

\* safe_generate(model, prompt, retries=3, sleep_time=20)
DefaultRetries == 3

DefaultSleepTime == 20

\* the string generate_recommendations returns from its except branch
GenericFailureMsg ==
    << "S", "o", "r", "r", "y", ",", " ", "I", " ", "c", "o", "u", "l", "d",
       "n", "'", "t", " ", "g", "e", "n", "e", "r", "a", "t", "e", " ", "r",
       "e", "c", "o", "m", "m", "e", "n", "d", "a", "t", "i", "o", "n", "s",
       " ", "a", "t", " ", "t", "h", "i", "s", " ", "t", "i", "m", "e", " ",
       "d", "u", "e", " ", "t", "o", " ", "a", " ", "t", "e", "c", "h", "n",
       "i", "c", "a", "l", " ", "i", "s", "s", "u", "e", "." >>

\* the word main looks for in the advice to show it as a warning
LimitWord == << "l", "i", "m", "i", "t" >>

----------------------------------------------------------------------------
(* Values *)

NoValue == << "<none>" >>

\* texts the service may answer with
TextPlain == << "S", "a", "v", "e" >>

TextPadded == << " ", "S", "a", "v", "e", "\n" >>

TextLimit == << "S", "e", "t", " ", "a", " ", "L", "i", "m", "i", "t" >>

TextEmpty == << >>

Texts == { TextPlain, TextPadded, TextLimit, TextEmpty }

\* sleep_time arguments tried on direct calls of safe_generate
SleepTimes == { 0, DefaultSleepTime }

\* what one call of model.generate_content can do
RespText(t) == [kind |-> "text", text |-> t]

RespNoText == [kind |-> "notext", text |-> NoValue]

RaiseQuota == [kind |-> "quota", text |-> NoValue]

RaiseOther == [kind |-> "other", text |-> NoValue]

CallEv == [ev |-> "call", d |-> 0]

SleepEv(d) == [ev |-> "sleep", d |-> d]

LogRec(level, line) == [level |-> level, line |-> line]

----------------------------------------------------------------------------
(* String functions *)

LowerMap ==
    ("A" :> "a") @@ ("B" :> "b") @@ ("C" :> "c") @@ ("D" :> "d") @@
    ("E" :> "e") @@ ("F" :> "f") @@ ("G" :> "g") @@ ("H" :> "h") @@
    ("I" :> "i") @@ ("J" :> "j") @@ ("K" :> "k") @@ ("L" :> "l") @@
    ("M" :> "m") @@ ("N" :> "n") @@ ("O" :> "o") @@ ("P" :> "p") @@
    ("Q" :> "q") @@ ("R" :> "r") @@ ("S" :> "s") @@ ("T" :> "t") @@
    ("U" :> "u") @@ ("V" :> "v") @@ ("W" :> "w") @@ ("X" :> "x") @@
    ("Y" :> "y") @@ ("Z" :> "z")

\* str.lower()
Lower(s) ==
    [i \in 1..Len(s) |-> IF s[i] \in DOMAIN LowerMap THEN LowerMap[s[i]] ELSE s[i]]

\* sub in s
Contains(s, sub) ==
    \E i \in 0..(Len(s) - Len(sub)) :
        \A j \in 1..Len(sub) : s[i + j] = sub[j]

\* "limit" in advice.lower()
MentionsLimit(s) == Contains(Lower(s), LimitWord)

Whitespace == { " ", "\n", "\t", "\r" }

RECURSIVE StripLeft(_)
StripLeft(s) ==
    IF Len(s) > 0 /\ s[1] \in Whitespace THEN StripLeft(Tail(s)) ELSE s

RECURSIVE StripRight(_)
StripRight(s) ==
    IF Len(s) > 0 /\ s[Len(s)] \in Whitespace
      THEN StripRight(SubSeq(s, 1, Len(s) - 1))
      ELSE s

Strip(s) == StripRight(StripLeft(s))

\* s has no leading and no trailing whitespace character
IsTrimmed(s) ==
    Len(s) > 0 => (s[1] \notin Whitespace /\ s[Len(s)] \notin Whitespace)

----------------------------------------------------------------------------
(* Dataframes *)

RequiredCols == << "datetime", "amount", "merchant_category", "expense_type" >>

RequiredColSet == { RequiredCols[i] : i \in 1..Len(RequiredCols) }

\* merchant categories, in the order groupby sorts its keys
CatOrder == << "Food", "Rent" >>

Categories == { CatOrder[i] : i \in 1..Len(CatOrder) }

\* expense_type labels; "Essential" is a label that is not well formed
ExpenseTypes == { "essential", "non-essential", "Essential" }

\* the dtype pandas gives the amount column: int64 when every amount in the
\* file is an integer literal, float64 otherwise
Dtypes == { "int64", "float64" }

Pow2(n) == 2 ^ n

\* amounts, in units of the smallest amount of the file
AmountValues == { 1, 2, Pow2(MantBits) - 1 }

Row(a, c, e) == [amount |-> a, category |-> c, etype |-> e]

Rows == { Row(a, c, e) : a \in AmountValues, c \in Categories, e \in ExpenseTypes }

SeqsUpTo(S, n) == UNION { [1..k -> S] : k \in 0..n }

Frame(cols, dt, rows) == [columns |-> cols, dtype |-> dt, rows |-> rows]

\* df.head(n) that keeps every row
HeadRows_All(frame, n) == frame

\* df.head(n)
HeadRows(frame, n) ==
    [frame EXCEPT !.rows = SubSeq(frame.rows, 1, IF Len(frame.rows) < n THEN Len(frame.rows) ELSE n)]

----------------------------------------------------------------------------
(* Arithmetic of the amount column *)

\* how many low bits a non-negative n loses when kept in MantBits bits
RECURSIVE DroppedBits(_)
DroppedBits(n) == IF n < Pow2(MantBits) THEN 0 ELSE 1 + DroppedBits(n \div 2)

\* round to nearest, ties to even, at MantBits significant bits
RoundF(n) ==
    LET e == DroppedBits(n)
        q == n \div Pow2(e)
        r == n % Pow2(e)
        up == 2 * r > Pow2(e) \/ (2 * r = Pow2(e) /\ q % 2 = 1)
    IN  IF e = 0 THEN n ELSE (IF up THEN q + 1 ELSE q) * Pow2(e)

\* a + b in the arithmetic of the dtype
Add(dt, a, b) == IF dt = "float64" THEN RoundF(a + b) ELSE a + b

\* Series.sum(): the elements are added in order, starting from 0
RECURSIVE SumSeq(_, _)
SumSeq(dt, xs) ==
    IF Len(xs) = 0 THEN 0
    ELSE Add(dt, SumSeq(dt, SubSeq(xs, 1, Len(xs) - 1)), xs[Len(xs)])

Amounts(rows) == [i \in 1..Len(rows) |-> rows[i].amount]

\* Series.mean(): NaN for an empty column, else sum / count
NaN == [num |-> 0, den |-> 0]

Mean(dt, xs) == IF Len(xs) = 0 THEN NaN ELSE [num |-> SumSeq(dt, xs), den |-> Len(xs)]

----------------------------------------------------------------------------
(* app.py: validate_columns, spending_patterns *)

\* [col for col in required_cols if col not in df.columns]
validate_columns(frame, required_cols) ==
    LET Absent(c) == c \notin frame.columns IN SelectSeq(required_cols, Absent)

\* df[df['expense_type'] == label]
WithType(rows, label) ==
    LET Is(r) == r.etype = label IN SelectSeq(rows, Is)

WithCategory(rows, c) ==
    LET Is(r) == r.category = c IN SelectSeq(rows, Is)

\* groupby('merchant_category')['amount'].sum(): one entry per category
\* present, keys in sorted order
GroupSums(frame) ==
    LET Present(c) == \E i \in 1..Len(frame.rows) : frame.rows[i].category = c
        keys == SelectSeq(CatOrder, Present)
    IN  [i \in 1..Len(keys) |->
            [cat |-> keys[i],
             amt |-> SumSeq(frame.dtype, Amounts(WithCategory(frame.rows, keys[i])))]]

\* insert x behind every entry that is not smaller
RECURSIVE InsertDesc(_, _)
InsertDesc(sorted, x) ==
    IF Len(sorted) = 0 THEN << x >>
    ELSE IF sorted[1].amt >= x.amt
           THEN << sorted[1] >> \o InsertDesc(Tail(sorted), x)
           ELSE << x >> \o sorted

\* sort_values(ascending=False): descending, equal sums keep their order
RECURSIVE SortDesc(_)
SortDesc(xs) ==
    IF Len(xs) = 0 THEN << >>
    ELSE InsertDesc(SortDesc(SubSeq(xs, 1, Len(xs) - 1)), xs[Len(xs)])

\* spending_patterns with the non-essential label misspelt in its filter
spending_patterns_Typo(frame) ==
    [total_spend |-> SumSeq(frame.dtype, Amounts(frame.rows)),
     spend_by_category |-> SortDesc(GroupSums(frame)),
     spend_essential |->
         SumSeq(frame.dtype, Amounts(WithType(frame.rows, "essential"))),
     spend_non_essential |->
         SumSeq(frame.dtype, Amounts(WithType(frame.rows, "non_essential"))),
     avg_transaction |-> Mean(frame.dtype, Amounts(frame.rows))]

spending_patterns(frame) ==
    [total_spend |-> SumSeq(frame.dtype, Amounts(frame.rows)),
     spend_by_category |-> SortDesc(GroupSums(frame)),
     spend_essential |->
         SumSeq(frame.dtype, Amounts(WithType(frame.rows, "essential"))),
     spend_non_essential |->
         SumSeq(frame.dtype, Amounts(WithType(frame.rows, "non-essential"))),
     avg_transaction |-> Mean(frame.dtype, Amounts(frame.rows))]

----------------------------------------------------------------------------
(* app.py: build_summary_text *)

\* f"{x:.2f}" of a number, kept as its count of hundredths
Fmt2(x) == 100 * x

\* f"{m:.2f}" of a mean: "nan", or the quotient rounded to hundredths
Fmt2Mean(m) ==
    IF m.den = 0 THEN [nan |-> TRUE, cents |-> 0]
    ELSE LET n == 100 * m.num
             q == n \div m.den
             r == n % m.den
             up == 2 * r > m.den \/ (2 * r = m.den /\ q % 2 = 1)
         IN  [nan |-> FALSE, cents |-> IF up THEN q + 1 ELSE q]

\* the five largest categories, one line each
TopLines(by_cat) ==
    LET top == SubSeq(by_cat, 1, IF Len(by_cat) < 5 THEN Len(by_cat) ELSE 5)
    IN  [i \in 1..Len(top) |-> [cat |-> top[i].cat, amt |-> Fmt2(top[i].amt)]]

\* Budget with the wants share mistyped as 0.20
Budget_WrongShare(income) ==
    [income |-> Fmt2(income), need |-> 50 * income, want |-> 20 * income,
     save |-> 20 * income]

\* the 50/30/20 section, in hundredths: income * 0.50, * 0.30, * 0.20
Budget(income) ==
    [income |-> Fmt2(income), need |-> 50 * income, want |-> 30 * income,
     save |-> 20 * income]

NoBudget == [income |-> 0, need |-> 0, want |-> 0, save |-> 0]

\* the income argument: None, or a number
NoIncome == [given |-> FALSE, value |-> 0]

SomeIncome(x) == [given |-> TRUE, value |-> x]

\* "if income:" holds for a number other than 0
Truthy(income) == income.given /\ income.value # 0

build_summary_text(p, income) ==
    [total |-> Fmt2(p.total_spend),
     essential |-> Fmt2(p.spend_essential),
     non_essential |-> Fmt2(p.spend_non_essential),
     average |-> Fmt2Mean(p.avg_transaction),
     top |-> TopLines(p.spend_by_category),
     has_budget |-> Truthy(income),
     budget |-> IF Truthy(income) THEN Budget(income.value) ELSE NoBudget]

----------------------------------------------------------------------------
(* Derived quantities *)

Calls == Cardinality({ i \in 1..Len(trace) : trace[i].ev = "call" })

Sleeps == Cardinality({ i \in 1..Len(trace) : trace[i].ev = "sleep" })

----------------------------------------------------------------------------
(* Inputs *)

\* the rows main summarises: df.head(3)
SummaryRows == 3

FrameA ==
    Frame(RequiredColSet, "int64",
          << Row(2, "Food", "essential"), Row(1, "Rent", "non-essential") >>)

FrameB ==
    Frame(RequiredColSet, "float64",
          << Row(1, "Rent", "essential"), Row(2, "Food", "non-essential"),
             Row(2, "Food", "non-essential"), Row(1, "Rent", "essential") >>)

FrameEmpty == Frame(RequiredColSet, "int64", << >>)

\* tables that lack one or more of the required columns
DeficientFrames ==
    { Frame(cols, "int64", << >>) : cols \in (SUBSET RequiredColSet) \ { RequiredColSet } }

\* a file that is no CSV table at all
Unreadable == [readable |-> FALSE, frame |-> Frame({}, "int64", << >>)]

Files ==
    { [readable |-> TRUE, frame |-> f] :
        f \in { FrameA, FrameB, FrameEmpty } \cup DeficientFrames }
    \cup { Unreadable }

\* the sample data main falls back to when nothing is uploaded
SampleFile == [readable |-> TRUE, frame |-> FrameA]

\* st.number_input(min_value=0, step=1000)
Incomes == { 0, 1000 }

NoFile == [readable |-> FALSE, frame |-> Frame({}, "int64", << >>)]

NoPrompt == [context |-> NoValue, summary |-> NoValue]

NoPatterns == << "<no patterns>" >>

NoFrame == Frame({}, "int64", << >>)

ExampleSummary ==
    build_summary_text(spending_patterns(FrameA), NoIncome)

----------------------------------------------------------------------------
(* recommender.py: what runs when the module is imported *)

\* values of GOOGLE_API_KEY
KeyA == << "k", "1" >>

KeyB == << "k", "2" >>

ApiKeys == { NoValue, << >>, KeyA, KeyB }

\* "not api_key" is false: the key is set and not empty
KeyTruthy(k) == k # NoValue /\ k # << >>

\* str(api_key)
StrOfKey(k) == IF k = NoValue THEN << "N", "o", "n", "e" >> ELSE k

\* print("Loaded GOOGLE_API_KEY:", api_key)
KeyLine(k) ==
    << "L", "o", "a", "d", "e", "d", " ", "G", "O", "O", "G", "L", "E", "_",
       "A", "P", "I", "_", "K", "E", "Y", ":", " " >> \o StrOfKey(k)

\* the module was imported with a key and the model object exists
EnvReady ==
    /\ api_key = KeyA
    /\ model = "created"
    /\ stdout = << KeyLine(KeyA) >>
    /\ init_exc = "none"

----------------------------------------------------------------------------
(* recommender.py *)

\* the prompt: the fixed template around the context, if any, and the summary
BuildPrompt(summary_text, additional_context) ==
    [context |-> IF additional_context # NoValue /\ additional_context # << >>
                   THEN additional_context ELSE NoValue,
     summary |-> summary_text]

AppOff ==
    /\ app_pc = "off"
    /\ runs = 0
    /\ session = NoValue
    /\ advice_src = NoPrompt
    /\ page = << >>
    /\ file = NoFile
    /\ df = NoFrame
    /\ patterns = NoPatterns
    /\ monthly_income = 0

Init ==
    /\ pc = "ready"
    /\ caller \in { "generate_recommendations", "safe_generate" }
    /\ IF caller = "generate_recommendations"
         THEN retries = DefaultRetries /\ sleep_time = DefaultSleepTime
         ELSE retries \in 0..MaxRetries /\ sleep_time \in SleepTimes
    /\ attempt = 0
    /\ history = << >>
    /\ trace = << >>
    /\ log = << >>
    /\ sg_end = "running"
    /\ result = NoValue
    /\ raised = "none"
    /\ prompt = BuildPrompt(ExampleSummary, NoValue)
    /\ AppOff
    /\ EnvReady

\* Return with the advice stripped before it is handed back
Return_Stripped(t, lg) ==
    /\ pc' = "done"
    /\ sg_end' = "returned"
    /\ result' = Strip(t)
    /\ raised' = "none"
    /\ log' = lg

\* safe_generate returns t; generate_recommendations returns it as it is
Return(t, lg) ==
    /\ pc' = "done"
    /\ sg_end' = "returned"
    /\ result' = t
    /\ raised' = "none"
    /\ log' = lg

\* Raise with generate_recommendations catching RuntimeError only
Raise_NarrowExcept(e, lg) ==
    /\ pc' = "done"
    /\ sg_end' = e
    /\ IF caller' = "generate_recommendations" /\ e = "RuntimeError"
         THEN /\ result' = GenericFailureMsg
              /\ raised' = "none"
              /\ log' = Append(lg, LogRec("ERROR", 79))
         ELSE /\ result' = NoValue
              /\ raised' = e
              /\ log' = lg

\* safe_generate raises e; generate_recommendations catches every Exception,
\* logs it and returns the fixed failure string
Raise(e, lg) ==
    /\ pc' = "done"
    /\ sg_end' = e
    /\ IF caller' = "generate_recommendations"
         THEN /\ result' = GenericFailureMsg
              /\ raised' = "none"
              /\ log' = Append(lg, LogRec("ERROR", 79))
         ELSE /\ result' = NoValue
              /\ raised' = e
              /\ log' = lg

\* NextAttempt with the loop bound off by one
NextAttempt_OffByOne(a, lg) ==
    /\ attempt' = a
    /\ IF a <= retries'
         THEN /\ pc' = "sg_loop"
              /\ log' = lg
              /\ sg_end' = "running"
              /\ result' = NoValue
              /\ raised' = "none"
         ELSE Raise("RuntimeError", lg)

\* the for loop goes on with attempt a, or is exhausted and line 56 raises
NextAttempt(a, lg) ==
    /\ attempt' = a
    /\ IF a < retries'
         THEN /\ pc' = "sg_loop"
              /\ log' = lg
              /\ sg_end' = "running"
              /\ result' = NoValue
              /\ raised' = "none"
         ELSE Raise("RuntimeError", lg)

\* HandleException that gives up one attempt early
HandleException_Early(e, lg) ==
    LET lg1 == Append(lg, LogRec("ERROR", 50)) IN
    IF attempt < retries - 2
      THEN /\ trace' = trace \o << CallEv, SleepEv(sleep_time) >>
           /\ NextAttempt(attempt + 1, Append(lg1, LogRec("INFO", 52)))
      ELSE /\ trace' = Append(trace, CallEv)
           /\ attempt' = attempt
           /\ Raise(e, lg1)

\* the except Exception branch of safe_generate, entered with log lg
HandleException(e, lg) ==
    LET lg1 == Append(lg, LogRec("ERROR", 50)) IN
    IF attempt < retries - 1
      THEN /\ trace' = trace \o << CallEv, SleepEv(sleep_time) >>
           /\ NextAttempt(attempt + 1, Append(lg1, LogRec("INFO", 52)))
      ELSE /\ trace' = Append(trace, CallEv)
           /\ attempt' = attempt
           /\ Raise(e, lg1)

\* the entry point is called and safe_generate reaches its first model call
Invoke ==
    /\ pc = "ready"
    /\ app_pc = "off"
    /\ UNCHANGED << caller, retries, sleep_time, history, trace, prompt >>
    /\ NextAttempt(0, log)
    /\ UNCHANGED app_vars
    /\ UNCHANGED env_vars

\* AttemptSuccess with the hasattr test inverted: a response that has a
\* text is taken for an unexpected one
AttemptSuccess_Inverted(t) ==
    /\ pc = "sg_loop"
    /\ UNCHANGED << caller, retries, sleep_time, prompt >>
    /\ history' = Append(history, RespText(t))
    /\ HandleException("ValueError", Append(log, LogRec("ERROR", 44)))
    /\ UNCHANGED app_vars
    /\ UNCHANGED env_vars

\* model.generate_content answers with a response that has a text
AttemptSuccess(t) ==
    /\ pc = "sg_loop"
    /\ UNCHANGED << caller, retries, sleep_time, prompt >>
    /\ history' = Append(history, RespText(t))
    /\ trace' = Append(trace, CallEv)
    /\ attempt' = attempt
    /\ Return(t, log)
    /\ UNCHANGED app_vars
    /\ UNCHANGED env_vars

\* model.generate_content answers with a response without a text
AttemptMalformed ==
    /\ pc = "sg_loop"
    /\ UNCHANGED << caller, retries, sleep_time, prompt >>
    /\ history' = Append(history, RespNoText)
    /\ HandleException("ValueError", Append(log, LogRec("ERROR", 44)))
    /\ UNCHANGED app_vars
    /\ UNCHANGED env_vars

\* AttemptQuota that writes no log record
AttemptQuota_Silent ==
    /\ pc = "sg_loop"
    /\ UNCHANGED << caller, retries, sleep_time, prompt >>
    /\ history' = Append(history, RaiseQuota)
    /\ trace' = trace \o << CallEv, SleepEv(sleep_time) >>
    /\ NextAttempt(attempt + 1, log)
    /\ UNCHANGED app_vars
    /\ UNCHANGED env_vars

\* model.generate_content raises ResourceExhausted
AttemptQuota ==
    /\ pc = "sg_loop"
    /\ UNCHANGED << caller, retries, sleep_time, prompt >>
    /\ history' = Append(history, RaiseQuota)
    /\ trace' = trace \o << CallEv, SleepEv(sleep_time) >>
    /\ NextAttempt(attempt + 1, Append(log, LogRec("WARNING", 47)))
    /\ UNCHANGED app_vars
    /\ UNCHANGED env_vars

\* model.generate_content raises any other Exception
AttemptOther ==
    /\ pc = "sg_loop"
    /\ UNCHANGED << caller, retries, sleep_time, prompt >>
    /\ history' = Append(history, RaiseOther)
    /\ HandleException("Exception", log)
    /\ UNCHANGED app_vars
    /\ UNCHANGED env_vars

Next ==
    \/ Invoke
    \/ \E t \in Texts : AttemptSuccess(t)
    \/ AttemptMalformed
    \/ AttemptQuota
    \/ AttemptOther

Spec == Init /\ [][Next]_vars

\* the call is never abandoned half way: a pending step is eventually taken
FairSpec == Spec /\ WF_vars(Next)

----------------------------------------------------------------------------
(* The process from the import of recommender.py on *)

ProcInit ==
    /\ pc = "import"
    /\ caller \in { "generate_recommendations", "safe_generate" }
    /\ IF caller = "generate_recommendations"
         THEN retries = DefaultRetries /\ sleep_time = DefaultSleepTime
         ELSE retries \in 0..MaxRetries /\ sleep_time \in SleepTimes
    /\ attempt = 0
    /\ history = << >>
    /\ trace = << >>
    /\ log = << >>
    /\ sg_end = "running"
    /\ result = NoValue
    /\ raised = "none"
    /\ prompt = BuildPrompt(ExampleSummary, NoValue)
    /\ AppOff
    /\ api_key \in ApiKeys
    /\ model = "none"
    /\ stdout = << >>
    /\ init_exc = "none"

\* ImportModule without the test of the key
ImportModule_NoCheck(model_ok) ==
    /\ pc = "import"
    /\ stdout' = Append(stdout, KeyLine(api_key))
    /\ IF model_ok
         THEN /\ model' = "created"
              /\ pc' = "ready"
              /\ UNCHANGED << log, init_exc >>
         ELSE /\ log' = Append(log, LogRec("ERROR", 31))
              /\ init_exc' = "Exception"
              /\ pc' = "import_failed"
              /\ UNCHANGED model
    /\ UNCHANGED << caller, retries, sleep_time, attempt, history, trace,
                    sg_end, result, raised, prompt, api_key >>
    /\ UNCHANGED app_vars

\* lines 13-32: the key is read and printed; without a key EnvironmentError
\* is raised; else the model object is made, which succeeds (model_ok) or
\* raises, and then the error is logged and raised again
ImportModule(model_ok) ==
    /\ pc = "import"
    /\ stdout' = Append(stdout, KeyLine(api_key))
    /\ IF ~KeyTruthy(api_key)
         THEN /\ log' = Append(log, LogRec("ERROR", 20))
              /\ init_exc' = "EnvironmentError"
              /\ pc' = "import_failed"
              /\ UNCHANGED model
         ELSE IF model_ok
                THEN /\ model' = "created"
                     /\ pc' = "ready"
                     /\ UNCHANGED << log, init_exc >>
                ELSE /\ log' = Append(log, LogRec("ERROR", 31))
                     /\ init_exc' = "Exception"
                     /\ pc' = "import_failed"
                     /\ UNCHANGED model
    /\ UNCHANGED << caller, retries, sleep_time, attempt, history, trace,
                    sg_end, result, raised, prompt, api_key >>
    /\ UNCHANGED app_vars

ProcNext ==
    \/ \E model_ok \in BOOLEAN : ImportModule(model_ok)
    \/ Invoke
    \/ \E t \in Texts : AttemptSuccess(t)
    \/ AttemptMalformed
    \/ AttemptQuota
    \/ AttemptOther

ProcSpec == ProcInit /\ [][ProcNext]_vars

----------------------------------------------------------------------------
(* spending_patterns on its own *)

AdviceOff ==
    /\ pc = "off"
    /\ caller = "none"
    /\ retries = DefaultRetries
    /\ sleep_time = DefaultSleepTime
    /\ attempt = 0
    /\ history = << >>
    /\ trace = << >>
    /\ log = << >>
    /\ sg_end = "running"
    /\ result = NoValue
    /\ raised = "none"
    /\ prompt = NoPrompt

SummaryInit ==
    /\ AdviceOff
    /\ EnvReady
    /\ monthly_income = 0
    /\ app_pc = "summary_ready"
    /\ runs = 0
    /\ session = NoValue
    /\ advice_src = NoPrompt
    /\ page = << >>
    /\ file = NoFile
    /\ df \in { Frame(RequiredColSet, dt, rows) :
                    dt \in Dtypes, rows \in SeqsUpTo(Rows, MaxRows) }
    /\ patterns = NoPatterns

\* patterns = spending_patterns(df)
ComputePatterns ==
    /\ app_pc = "summary_ready"
    /\ patterns' = spending_patterns(df)
    /\ app_pc' = "summary_done"
    /\ UNCHANGED << runs, session, advice_src, page, file, df, monthly_income >>
    /\ UNCHANGED advice_vars
    /\ UNCHANGED env_vars

SummaryNext == ComputePatterns

SummarySpec == SummaryInit /\ [][SummaryNext]_vars

----------------------------------------------------------------------------
(* app.py: main, run once per user interaction, with st.session_state kept *)

Page(kind, missing, steps, summary, tip, chart_rows, advice, style) ==
    [kind |-> kind, missing |-> missing, steps |-> steps, summary |-> summary,
     tip |-> tip, chart_rows |-> chart_rows, advice |-> advice, style |-> style]

BlankPage == Page("none", << >>, << >>, NoValue, FALSE, << >>, NoValue, "none")

\* pd.read_csv(..., parse_dates=['datetime']) raises for a file that is no
\* table, and for a table without the column it is told to parse as dates
ReadOk(f) == f.readable /\ "datetime" \in f.frame.columns

\* the advice is a warning when it mentions a limit, else an insight box
\* with balloons
AdviceStyle(advice) == IF MentionsLimit(advice) THEN "warning" ELSE "insight"

AppInit ==
    /\ AdviceOff
    /\ EnvReady
    /\ app_pc = "idle"
    /\ runs = 0
    /\ session = NoValue
    /\ advice_src = NoPrompt
    /\ page = BlankPage
    /\ file = NoFile
    /\ df = NoFrame
    /\ patterns = NoPatterns
    /\ monthly_income = 0

\* the button branch of main, on the dataframe read and validated
Analyze(frame, income) ==
    LET small == HeadRows(frame, SummaryRows)
        p == spending_patterns(small)
        text == build_summary_text(p, IF income > 0 THEN SomeIncome(income) ELSE NoIncome)
        tip == 2 * p.spend_non_essential > p.total_spend
        steps == << "read_csv", "validate_columns", "spending_patterns",
                    "build_summary_text" >>
    IN  /\ patterns' = p
        /\ IF session = NoValue
             THEN \* 'advice' not in st.session_state: ask for it
                  /\ caller' = "generate_recommendations"
                  /\ retries' = DefaultRetries
                  /\ sleep_time' = DefaultSleepTime
                  /\ history' = << >>
                  /\ trace' = << >>
                  /\ prompt' = BuildPrompt(text, NoValue)
                  /\ NextAttempt(0, log)
                  /\ app_pc' = "advising"
                  /\ page' = Page("analysis_pending", << >>,
                                  Append(steps, "generate_recommendations"),
                                  text, tip, frame.rows, NoValue, "none")
                  /\ UNCHANGED << session, advice_src >>
             ELSE /\ page' = Page("analysis", << >>, steps, text, tip,
                                  frame.rows, session, AdviceStyle(session))
                  /\ UNCHANGED << app_pc, session, advice_src >>
                  /\ UNCHANGED advice_vars

\* one run of main: uploaded tells whether f is the uploaded file or the
\* sample file, income is the number input, clicked the button
RunMain(uploaded, f, income, clicked) ==
    /\ app_pc = "idle"
    /\ runs < MaxRuns
    /\ runs' = runs + 1
    /\ file' = f
    /\ monthly_income' = income
    /\ UNCHANGED env_vars
    /\ IF ~ReadOk(f)
         THEN /\ page' = Page("read_error", << >>, << "read_csv" >>, NoValue,
                              FALSE, << >>, NoValue, "none")
              /\ UNCHANGED << app_pc, session, advice_src, df, patterns >>
              /\ UNCHANGED advice_vars
         ELSE LET missing == validate_columns(f.frame, RequiredCols) IN
              /\ df' = f.frame
              /\ IF Len(missing) > 0
                   THEN /\ page' = Page("missing_columns", missing,
                                        << "read_csv", "validate_columns" >>,
                                        NoValue, FALSE, << >>, NoValue, "none")
                        /\ UNCHANGED << app_pc, session, advice_src, patterns >>
                        /\ UNCHANGED advice_vars
                   ELSE IF ~clicked
                          THEN /\ page' = Page("table", << >>,
                                               << "read_csv", "validate_columns" >>,
                                               NoValue, FALSE, << >>, NoValue, "none")
                               /\ UNCHANGED << app_pc, session, advice_src, patterns >>
                               /\ UNCHANGED advice_vars
                          ELSE Analyze(f.frame, income)

\* generate_recommendations has returned: main stores the advice in the
\* session state and shows it
FinishRun ==
    /\ app_pc = "advising"
    /\ pc = "done"
    /\ session' = result
    /\ advice_src' = prompt
    /\ page' = [page EXCEPT !.kind = "analysis", !.advice = result,
                            !.style = AdviceStyle(result)]
    /\ app_pc' = "idle"
    /\ UNCHANGED << runs, file, df, patterns, monthly_income >>
    /\ UNCHANGED advice_vars
    /\ UNCHANGED env_vars

AppNext ==
    \/ \E uploaded \in BOOLEAN :
         \E f \in (IF uploaded THEN Files ELSE { SampleFile, Unreadable }) :
           \E income \in Incomes, clicked \in BOOLEAN :
             RunMain(uploaded, f, income, clicked)
    \/ \E t \in Texts : AttemptSuccess(t)
    \/ AttemptMalformed
    \/ AttemptQuota
    \/ AttemptOther
    \/ FinishRun

AppSpec == AppInit /\ [][AppNext]_vars

----------------------------------------------------------------------------
(* Properties of the advice client *)

ViaRecommendations == caller = "generate_recommendations"

Finished == pc = "done"

LastResponse == history[Len(history)]

AllQuota ==
    /\ Len(history) > 0
    /\ \A i \in 1..Len(history) : history[i].kind = "quota"

\* between two model calls the code sleeps once, for sleep_time
CallsSeparatedByBackoff ==
    \A i \in 1..Len(trace) :
        (trace[i].ev = "call" /\ \E j \in (i + 1)..Len(trace) : trace[j].ev = "call")
            => trace[i + 1] = SleepEv(sleep_time)

Exceptions == { "ValueError", "RuntimeError", "Exception" }

\* C1: a generate_recommendations call whose every attempt is answered with
\* ResourceExhausted makes exactly retries model calls, separated by the
\* backoff, and returns the quota message, the one main shows as a warning.
C1_QuotaRunReturnsQuotaMessage ==
    (ViaRecommendations /\ Finished /\ AllQuota) =>
        /\ Calls = retries
        /\ CallsSeparatedByBackoff
        /\ MentionsLimit(result)

\* C2: a response without a text ends safe_generate at once: it is the last
\* answer, no sleep follows its call and the ValueError is the outcome.
C2_MalformedFailsImmediately ==
    \A i \in 1..Len(history) :
        history[i].kind = "notext" =>
            /\ i = Len(history)
            /\ trace[Len(trace)].ev = "call"
            /\ Finished
            /\ sg_end = "ValueError"

\* C3: when the first model call of generate_recommendations answers with a
\* text, the call returns that text after one model call and no sleep.
C3_FirstSuccessReturnsText ==
    (ViaRecommendations /\ Len(history) >= 1 /\ history[1].kind = "text") =>
        /\ Finished
        /\ result = history[1].text
        /\ raised = "none"
        /\ Calls = 1
        /\ Sleeps = 0

C3_Witness ==
    /\ ViaRecommendations
    /\ Finished
    /\ history = << RespText(TextPlain) >>
    /\ result = TextPlain

\* C4: whatever the service answers, generate_recommendations ends by
\* returning a string, and no exception ever reaches its caller.
C4_AlwaysReturnsString ==
    /\ [](ViaRecommendations => raised = "none")
    /\ (ViaRecommendations ~>
            (Finished /\ raised = "none" /\ result \in Texts \cup { GenericFailureMsg }))

C4_Witness ==
    /\ ViaRecommendations
    /\ Finished
    /\ history = << RaiseQuota, RespNoText, RaiseOther >>
    /\ result = GenericFailureMsg

\* C5: the string generate_recommendations returns when the retry budget was
\* exhausted by quota errors differs from the generic failure string.
C5_QuotaMessageDiffers ==
    (ViaRecommendations /\ Finished /\ sg_end = "RuntimeError"
        /\ Len(history) = retries /\ LastResponse.kind = "quota")
        => result # GenericFailureMsg

\* C6: safe_generate never makes more than retries model calls, and it ends,
\* either returning the text of its last response or raising an exception.
C6_BoundedAttempts ==
    /\ [](/\ Calls <= retries
          /\ Len(history) = Calls
          /\ Finished =>
                \/ sg_end = "returned" /\ LastResponse.kind = "text"
                \/ sg_end \in Exceptions
          /\ (Finished /\ ~ViaRecommendations) =>
                \/ sg_end = "returned" /\ result = LastResponse.text /\ raised = "none"
                \/ sg_end \in Exceptions /\ raised = sg_end /\ result = NoValue)
    /\ <>Finished

C6_Witness ==
    /\ ~ViaRecommendations
    /\ Finished
    /\ retries = MaxRetries
    /\ Calls = retries
    /\ raised = "RuntimeError"

----------------------------------------------------------------------------
(* Properties of spending_patterns *)

WellFormedLabels(frame) ==
    \A i \in 1..Len(frame.rows) :
        frame.rows[i].etype \in { "essential", "non-essential" }

Abs(x) == IF x < 0 THEN -x ELSE x

\* the sum of the amounts without any rounding
RECURSIVE ExactSum(_)
ExactSum(xs) == IF Len(xs) = 0 THEN 0 ELSE xs[1] + ExactSum(Tail(xs))

\* spend_essential + spend_non_essential, as the dtype adds them
PartsSum == Add(df.dtype, patterns.spend_essential, patterns.spend_non_essential)

----------------------------------------------------------------------------
(* Properties of main *)

MissingOf(f) == RequiredColSet \ f.frame.columns

Range(xs) == { xs[i] : i \in 1..Len(xs) }

\* C8: a run of main on a table that lacks required columns ends with the
\* validation failure listing exactly the missing columns, and runs neither
\* spending_patterns nor build_summary_text nor generate_recommendations.
C8_MissingColumnsListed ==
    (runs > 0 /\ file.readable /\ MissingOf(file) # {}) =>
        /\ page.kind = "missing_columns"
        /\ Range(page.missing) = MissingOf(file)
        /\ Range(page.steps) \cap
             { "spending_patterns", "build_summary_text",
               "generate_recommendations" } = {}

\* C9: the advice an analysis shows was obtained from a
\* generate_recommendations call on the summary that analysis shows.
C9_AdviceIsForCurrentSummary ==
    page.kind = "analysis" =>
        /\ page.advice = session
        /\ advice_src = BuildPrompt(page.summary, NoValue)

----------------------------------------------------------------------------
(* Properties of the import of recommender.py *)

\* C13: without a credential the import ends with EnvironmentError, no model
\* object is ever made and no model call is ever issued.
C13_NoKeyNoModel ==
    ~KeyTruthy(api_key) =>
        /\ model = "none"
        /\ Calls = 0
        /\ pc \in { "import", "import_failed" }
        /\ pc = "import_failed" => init_exc = "EnvironmentError"

C13_Witness ==
    /\ api_key = NoValue
    /\ pc = "import_failed"
    /\ init_exc = "EnvironmentError"
    /\ model = "none"

\* C18: the value of the credential appears in no line the program prints.
C18_KeyNeverPrinted ==
    KeyTruthy(api_key) =>
        \A i \in 1..Len(stdout) : ~Contains(stdout[i], api_key)

----------------------------------------------------------------------------
(* Further properties of the advice client *)

CountLog(lines) == Cardinality({ i \in 1..Len(log) : log[i].line \in lines })

CountAnswers(kinds) ==
    Cardinality({ i \in 1..Len(history) : history[i].kind \in kinds })

\* C11: every failed attempt of safe_generate leaves its own log record (a
\* warning for a quota error, an error otherwise), and a
\* generate_recommendations call that returns the failure string has logged
\* the error last.
C11_EveryErrorLogged ==
    /\ CountLog({ 47 }) = CountAnswers({ "quota" })
    /\ CountLog({ 50 }) = CountAnswers({ "notext", "other" })
    /\ CountLog({ 44 }) = CountAnswers({ "notext" })
    /\ (ViaRecommendations /\ Finished /\ sg_end \in Exceptions) =>
          /\ result = GenericFailureMsg
          /\ log[Len(log)] = LogRec("ERROR", 79)
    /\ (ViaRecommendations /\ Finished /\ result = GenericFailureMsg) =>
          Len(log) > 0

C11_Witness ==
    /\ ViaRecommendations
    /\ Finished
    /\ history = << RaiseQuota, RespNoText, RaiseOther >>
    /\ log = << LogRec("WARNING", 47), LogRec("ERROR", 44), LogRec("ERROR", 50),
                LogRec("INFO", 52), LogRec("ERROR", 50), LogRec("ERROR", 79) >>

\* C14: failures before the budget is used up are retried, and a success at
\* the k-th call, after k-1 failed calls, returns that call's text after
\* exactly k calls and k-1 sleeps of sleep_time.
C14_FailuresMaskedByRetry ==
    /\ (Len(history) > 0 /\ Len(history) < retries
          /\ LastResponse.kind \in { "quota", "other" }) => pc = "sg_loop"
    /\ sg_end = "returned" =>
          /\ Len(history) \in 1..retries
          /\ \A i \in 1..(Len(history) - 1) : history[i].kind # "text"
          /\ result = LastResponse.text
          /\ Calls = Len(history)
          /\ Sleeps = Len(history) - 1
          /\ \A i \in 1..Len(trace) :
                trace[i].ev = "sleep" => trace[i].d = sleep_time

C14_Witness ==
    /\ sg_end = "returned"
    /\ Len(history) = 3
    /\ history[1].kind = "quota"
    /\ history[2].kind = "other"
    /\ result = TextPlain
    /\ Sleeps = 2

\* C15: no backoff sleep happens after the final attempt: when safe_generate
\* has ended, the last thing it did was a model call, and it slept once less
\* than it called.
C15_NoSleepAfterLastAttempt ==
    (Finished /\ Len(trace) > 0) =>
        /\ trace[Len(trace)].ev = "call"
        /\ Sleeps = Calls - 1

----------------------------------------------------------------------------
(* Further properties of main *)

OnAnalysis == page.kind \in { "analysis", "analysis_pending" }

\* the income main hands to build_summary_text
IncomeArg == IF monthly_income > 0 THEN SomeIncome(monthly_income) ELSE NoIncome

C16_FailureShownAsWarning ==
    (page.kind = "analysis" /\ sg_end \in Exceptions /\ page.advice = result) =>
        page.style = "warning"

\* the summary main would show for the given rows
SummaryOf(rows) ==
    build_summary_text(spending_patterns(Frame(df.columns, df.dtype, rows)),
                       IncomeArg)

FirstRows(rows, n) == SubSeq(rows, 1, IF Len(rows) < n THEN Len(rows) ELSE n)

\* C17 (as stated): the summary and the charts of one analysis are computed
\* from the same rows, all the rows of the dataset.
C17_SummaryAndChartsSameRows ==
    OnAnalysis =>
        /\ page.chart_rows = df.rows
        /\ page.summary = SummaryOf(page.chart_rows)

\* C17 (amended): the charts are computed from all the rows of the dataset,
\* the summary from its first three rows only.
C17_SummaryFromFirstThreeRows ==
    OnAnalysis =>
        /\ page.chart_rows = df.rows
        /\ page.summary = SummaryOf(FirstRows(df.rows, 3))
        /\ patterns.avg_transaction.den = (IF Len(df.rows) < 3 THEN Len(df.rows) ELSE 3)

C17_Witness ==
    /\ page.kind = "analysis"
    /\ Len(df.rows) = 4
    /\ Len(page.chart_rows) = 4
    /\ patterns.avg_transaction.den = 3
    /\ page.summary # SummaryOf(df.rows)

====
